---- MODULE Spec2Model ----
(***************************************************************************)
(* Model of debug_mcp_init.py: a probe that launches a child process,      *)
(* performs the initialize / notifications/initialized / tools/list        *)
(* handshake over the child's standard streams and tears the child down.   *)
(***************************************************************************)
EXTENDS Integers, Sequences, FiniteSets, TLC

(***************************************************************************)
(* Python values as produced by json.loads / consumed by json.dumps.       *)
(* JSON null and Python None are the same value.                           *)
(***************************************************************************)
VNone == [t |-> "None"]
VBool(b) == [t |-> "bool", b |-> b]
VNum(n) == [t |-> "num", n |-> n]
VStr(s) == [t |-> "str", s |-> s]
VArr(a) == [t |-> "arr", a |-> a]
VObj(o) == [t |-> "obj", o |-> o]
KV(k, v) == [k |-> k, v |-> v]

(* One lexical token of a line of text. *)
Tok(k, s, n) == [k |-> k, s |-> s, n |-> n]
P(s) == Tok("p", s, 0)
S(s) == Tok("str", s, 0)
N(n) == Tok("num", "", n)
L(s) == Tok("lit", s, 0)
Bad(s) == Tok("bad", s, 0)
BadByte == Tok("badbyte", "", 0)

(* dict assignment d[k] = v: a repeated key keeps its place, last value wins *)
RECURSIVE DictSet(_, _, _)
DictSet(o, k, v) ==
  IF o = <<>> THEN <<KV(k, v)>>
  ELSE IF Head(o).k = k THEN <<KV(k, v)>> \o Tail(o)
  ELSE <<Head(o)>> \o DictSet(Tail(o), k, v)

(* dict.get(k, default) *)
RECURSIVE DictGet(_, _, _)
DictGet(o, k, default) ==
  IF o = <<>> THEN default
  ELSE IF Head(o).k = k THEN Head(o).v
  ELSE DictGet(Tail(o), k, default)

ParseFail == [ok |-> FALSE, v |-> VNone, rest |-> <<>>]
ParseOk(v, rest) == [ok |-> TRUE, v |-> v, rest |-> rest]

IsP(toks, s) == toks /= <<>> /\ Head(toks).k = "p" /\ Head(toks).s = s

(* json.loads on the token text of a line: recursive descent *)
RECURSIVE ParseValue(_), ParseElems(_, _), ParseMembers(_, _)
ParseValue(toks) ==
  IF toks = <<>> THEN ParseFail
  ELSE LET h == Head(toks)
           r == Tail(toks)
       IN CASE h.k = "lit" /\ h.s = "null" -> ParseOk(VNone, r)
            [] h.k = "lit" /\ h.s = "true" -> ParseOk(VBool(TRUE), r)
            [] h.k = "lit" /\ h.s = "false" -> ParseOk(VBool(FALSE), r)
            [] h.k = "num" -> ParseOk(VNum(h.n), r)
            [] h.k = "str" -> ParseOk(VStr(h.s), r)
            [] h.k = "p" /\ h.s = "[" ->
                 IF IsP(r, "]") THEN ParseOk(VArr(<<>>), Tail(r))
                 ELSE ParseElems(r, <<>>)
            [] h.k = "p" /\ h.s = "{" ->
                 IF IsP(r, "}") THEN ParseOk(VObj(<<>>), Tail(r))
                 ELSE ParseMembers(r, <<>>)
            [] OTHER -> ParseFail

ParseElems(toks, acc) ==
  LET e == ParseValue(toks)
  IN IF ~e.ok THEN ParseFail
     ELSE IF IsP(e.rest, ",") THEN ParseElems(Tail(e.rest), Append(acc, e.v))
     ELSE IF IsP(e.rest, "]") THEN ParseOk(VArr(Append(acc, e.v)), Tail(e.rest))
     ELSE ParseFail

ParseMembers(toks, acc) ==
  IF toks = <<>> \/ Head(toks).k /= "str" \/ ~IsP(Tail(toks), ":") THEN ParseFail
  ELSE LET key == Head(toks).s
           e == ParseValue(Tail(Tail(toks)))
       IN IF ~e.ok THEN ParseFail
          ELSE IF IsP(e.rest, ",")
                 THEN ParseMembers(Tail(e.rest), DictSet(acc, key, e.v))
          ELSE IF IsP(e.rest, "}")
                 THEN ParseOk(VObj(DictSet(acc, key, e.v)), Tail(e.rest))
          ELSE ParseFail

(* json.loads(line.strip()): the whole text must be one value *)
Loads(toks) ==
  LET r == ParseValue(toks)
  IN IF r.ok /\ r.rest = <<>> THEN [ok |-> TRUE, v |-> r.v]
     ELSE [ok |-> FALSE, v |-> VNone]

(* json.dumps: the token text of a value *)
RECURSIVE Dumps(_), DumpsElems(_), DumpsMembers(_)
Dumps(v) ==
  CASE v.t = "None" -> <<L("null")>>
    [] v.t = "bool" -> <<L(IF v.b THEN "true" ELSE "false")>>
    [] v.t = "num" -> <<N(v.n)>>
    [] v.t = "str" -> <<S(v.s)>>
    [] v.t = "arr" -> <<P("[")>> \o DumpsElems(v.a) \o <<P("]")>>
    [] v.t = "obj" -> <<P("{")>> \o DumpsMembers(v.o) \o <<P("}")>>

DumpsElems(a) ==
  IF a = <<>> THEN <<>>
  ELSE IF Len(a) = 1 THEN Dumps(a[1])
  ELSE Dumps(a[1]) \o <<P(",")>> \o DumpsElems(Tail(a))

DumpsMembers(o) ==
  IF o = <<>> THEN <<>>
  ELSE IF Len(o) = 1 THEN <<S(o[1].k), P(":")>> \o Dumps(o[1].v)
  ELSE <<S(o[1].k), P(":")>> \o Dumps(o[1].v) \o <<P(",")>> \o DumpsMembers(Tail(o))

(***************************************************************************)
(* Python operations used by main on decoded values.                       *)
(***************************************************************************)
(* len() of the strings that occur in the lines the child writes *)
StrLen(s) ==
  CASE s = "" -> 0
    [] s \in {"a", "b", "x"} -> 1
    [] s = "2.0" -> 3
    [] s = "name" -> 4
    [] s = "2024-11-05" -> 10

(* truth value of a Python object, as tested by `if` and `and` *)
Truthy(v) ==
  CASE v.t = "None" -> FALSE
    [] v.t = "bool" -> v.b
    [] v.t = "num" -> v.n /= 0
    [] v.t = "str" -> v.s /= ""
    [] v.t = "arr" -> v.a /= <<>>
    [] v.t = "obj" -> v.o /= <<>>

(* len(v) is defined for sequences, dicts and strings; TypeError otherwise *)
HasLen(v) == v.t \in {"arr", "obj", "str"}
PyLen(v) ==
  CASE v.t = "arr" -> Len(v.a)
    [] v.t = "obj" -> Len(v.o)
    [] v.t = "str" -> StrLen(v.s)

(* an entry of the probe's diagnostic stream (sys.stderr) *)
Entry(msg, arg) == [msg |-> msg, arg |-> arg]

(* `response and response.get("result")`:
   "ok" the test is true, "failed" it is false, "raise" .get does not exist *)
ResultTest(response) ==
  IF ~Truthy(response) THEN "failed"
  ELSE IF response.t /= "obj" THEN "raise"
  ELSE IF Truthy(DictGet(response.o, "result", VNone)) THEN "ok"
  ELSE "failed"

(***************************************************************************)
(* The three messages main sends.                                          *)
(***************************************************************************)
init_request ==
  VObj(<<KV("jsonrpc", VStr("2.0")),
         KV("id", VNum(1)),
         KV("method", VStr("initialize")),
         KV("params", VObj(<<
            KV("protocolVersion", VStr("2024-11-05")),
            KV("capabilities", VObj(<<
               KV("roots", VObj(<<KV("listChanged", VBool(TRUE))>>)),
               KV("sampling", VObj(<<>>))>>)),
            KV("clientInfo", VObj(<<
               KV("name", VStr("debug-client")),
               KV("version", VStr("1.0.0"))>>))>>))>>)

init_notification ==
  VObj(<<KV("jsonrpc", VStr("2.0")),
         KV("method", VStr("notifications/initialized")),
         KV("params", VObj(<<>>))>>)

(* faulty variant: the id of the first request is reused *)
tools_request_reusedId ==
  VObj(<<KV("jsonrpc", VStr("2.0")),
         KV("id", VNum(1)),
         KV("method", VStr("tools/list")),
         KV("params", VObj(<<>>))>>)

tools_request ==
  VObj(<<KV("jsonrpc", VStr("2.0")),
         KV("id", VNum(2)),
         KV("method", VStr("tools/list")),
         KV("params", VObj(<<>>))>>)

(***************************************************************************)
(* Bounds of the model and the lines the child may write to its stdout.    *)
(***************************************************************************)
MaxLines == 2     \* lines the child writes to stdout in one run
MaxTools == 2     \* longest tools sequence in a tools/list result
MaxErr == 2       \* chunks the child tries to write to its stderr in one run
PipeCap == 1      \* chunks the stderr pipe holds before a write blocks
WaitTimeout == 5  \* process.wait(timeout=5)

Resp(id, field, value) ==
  Dumps(VObj(<<KV("jsonrpc", VStr("2.0")), KV("id", VNum(id)), KV(field, value)>>))

ToolName(i) == IF i = 1 THEN "a" ELSE IF i = 2 THEN "b" ELSE "x"
ToolsResult(n) ==
  VObj(<<KV("tools", VArr([i \in 1..n |-> VObj(<<KV("name", VStr(ToolName(i)))>>)]))>>)

LineEmpty == <<>>
LineGarbage == <<Bad("oops")>>
LineBadBytes == <<BadByte>>
LineTruncated == <<P("{"), S("id"), P(":"), N(1)>>
LineNull == <<L("null")>>
LineArray == <<P("["), N(1), P("]")>>
LineEmptyResult == Resp(1, "result", VObj(<<>>))
LineInitResult == Resp(1, "result", VObj(<<KV("protocolVersion", VStr("2024-11-05"))>>))
LineError == Resp(1, "error", VObj(<<KV("code", VNum(5))>>))
LineNumResult == Resp(2, "result", VNum(5))
LineNumTools == Resp(2, "result", VObj(<<KV("tools", VNum(5))>>))
LineTools(n) == Resp(2, "result", ToolsResult(n))

Lines ==
  {LineEmpty, LineGarbage, LineBadBytes, LineTruncated, LineNull, LineArray,
   LineEmptyResult, LineInitResult, LineError, LineNumResult, LineNumTools}
  \cup {LineTools(n) : n \in 0..MaxTools}

(***************************************************************************)
(* read_response, given what readline produced: [eof |-> TRUE] at          *)
(* end-of-stream, else the token text of the line.  Returns the value      *)
(* handed to the caller and what was printed.                              *)
(***************************************************************************)
(* json.loads of a line; the decoding of the lines that occur in a run is
   worked out once *)
KnownTexts ==
  Lines \cup {Dumps(init_request), Dumps(init_notification), Dumps(tools_request)}
LoadsOfText == [l \in KnownTexts |-> Loads(l)]
json_loads(toks) == IF toks \in KnownTexts THEN LoadsOfText[toks] ELSE Loads(toks)

Undecodable(toks) == \E i \in 1..Len(toks) : toks[i].k = "badbyte"

(* faulty variant: `if line.strip():`, a blank line is taken for end-of-stream *)
read_response_skipsBlank(rl) ==
  IF ~rl.eof /\ Undecodable(rl.toks)
    THEN [v |-> VNone, out |-> <<Entry("ERROR reading response:", VNone)>>]
  ELSE IF rl.eof \/ rl.toks = <<>>
    THEN [v |-> VNone, out |-> <<>>]
  ELSE LET r == json_loads(rl.toks)
       IN IF r.ok
            THEN [v |-> r.v, out |-> <<Entry("RECEIVED:", r.v)>>]
            ELSE [v |-> VNone, out |-> <<Entry("ERROR reading response:", VNone)>>]

read_response(rl) ==
  IF ~rl.eof /\ Undecodable(rl.toks)
    THEN [v |-> VNone, out |-> <<Entry("ERROR reading response:", VNone)>>]
  ELSE IF rl.eof
    THEN [v |-> VNone, out |-> <<>>]
  ELSE LET r == json_loads(rl.toks)
       IN IF r.ok
            THEN [v |-> r.v, out |-> <<Entry("RECEIVED:", r.v)>>]
            ELSE [v |-> VNone, out |-> <<Entry("ERROR reading response:", VNone)>>]

(***************************************************************************)
(* State.                                                                  *)
(***************************************************************************)
VARIABLES
  pc,             \* position of main
  stage,          \* furthest handshake stage main has completed
  child,          \* "none" | "running" | "exited"
  inOpen,         \* the child still reads its stdin
  outOpen,        \* the child still holds its stdout open
  stdin,          \* lines main has written to process.stdin, in order
  pending,        \* lines on process.stdout not yet read (their text is
                  \* fixed when they are read)
  nWritten,       \* lines the child has written to stdout
  err,            \* chunks waiting on process.stderr
  nErr,           \* chunks the child has written to stderr
  reads,          \* calls of readline that have returned
  init_response,  \* main's local
  tools_response, \* main's local
  waited,         \* time units spent in process.wait
  log,            \* the probe's diagnostic stream
  tdlog,          \* teardown steps taken, in order
  rd,             \* what each call of readline returned, in order
  errBlocked,     \* the child is blocked in a write to its full stderr pipe
  earlyExit       \* the child had exited before main's first send

vars == <<pc, stage, child, inOpen, outOpen, stdin, pending, nWritten, err, nErr,
          reads, init_response, tools_response, waited, log, tdlog,
          rd, errBlocked, earlyExit>>

childVars == <<child, inOpen, outOpen, pending, nWritten, err, nErr,
               errBlocked, earlyExit>>

Init ==
  /\ pc = "start"
  /\ stage = "NotStarted"
  /\ child = "none"
  /\ inOpen = FALSE
  /\ outOpen = FALSE
  /\ stdin = <<>>
  /\ pending = 0
  /\ nWritten = 0
  /\ err = 0
  /\ nErr = 0
  /\ reads = 0
  /\ init_response = VNone
  /\ tools_response = VNone
  /\ waited = 0
  /\ log = <<>>
  /\ tdlog = <<>>
  /\ rd = <<>>
  /\ errBlocked = FALSE
  /\ earlyExit = FALSE

(***************************************************************************)
(* Helpers of main.                                                        *)
(***************************************************************************)
(* faulty variant: a write to a child that is gone is not noticed *)
send_message_ignoresBrokenPipe(message) ==
  [ok |-> TRUE,
   stdin |-> Append(stdin, Dumps(message)),
   out |-> <<Entry("SENDING:", message)>>]

(* send_message: the text is printed first, then written and flushed; the
   write raises BrokenPipeError when the child no longer reads its stdin *)
send_message(message) ==
  [ok |-> inOpen,
   stdin |-> IF inOpen THEN Append(stdin, Dumps(message)) ELSE stdin,
   out |-> <<Entry("SENDING:", message)>>]

(* process.stdout.readline(): the next line, whose text is `line`, or
   end-of-stream *)
readline(line) ==
  IF pending > 0 THEN [eof |-> FALSE, toks |-> line]
  ELSE [eof |-> TRUE, toks |-> <<>>]

(* faulty variant: readline gives up although the pipe is open and empty *)
CanRead_timesOut == TRUE

(* readline returns once a line is there or every writer closed the pipe *)
CanRead == pending > 0 \/ ~outOpen

(* the handler `except Exception as e` of main *)
ExceptHandler == <<Entry("Error during test:", VNone)>>

(* faulty variant: a response is accepted only when it echoes id 1 *)
InitReport_checksId(response) ==
  LET test == IF response.t = "obj" /\ DictGet(response.o, "id", VNone) /= VNum(1)
                THEN "failed"
                ELSE ResultTest(response)
  IN CASE test = "ok" ->
            [res |-> "ok", out |-> <<Entry("INITIALIZE successful!", VNone)>>]
       [] test = "failed" ->
            [res |-> "failed", out |-> <<Entry("INITIALIZE failed:", response)>>]
       [] test = "raise" ->
            [res |-> "raise", out |-> <<>>]

(* faulty variant: the `return` after the failure report is missing *)
InitReport_noReturn(response) ==
  LET test == ResultTest(response)
  IN CASE test = "ok" ->
            [res |-> "ok", out |-> <<Entry("INITIALIZE successful!", VNone)>>]
       [] test = "failed" ->
            [res |-> "ok", out |-> <<Entry("INITIALIZE failed:", response)>>]
       [] test = "raise" ->
            [res |-> "raise", out |-> <<>>]

(* lines 66-70: verdict on the initialize response *)
InitReport(response) ==
  LET test == ResultTest(response)
  IN CASE test = "ok" ->
            [res |-> "ok", out |-> <<Entry("INITIALIZE successful!", VNone)>>]
       [] test = "failed" ->
            [res |-> "failed", out |-> <<Entry("INITIALIZE failed:", response)>>]
       [] test = "raise" ->
            [res |-> "raise", out |-> <<>>]

(* faulty variant: len() is taken of the result instead of its tools *)
ToolsReport_lenOfResult(response) ==
  LET test == ResultTest(response)
      success == Entry("TOOLS/LIST successful!", VNone)
  IN CASE test = "failed" ->
            [res |-> "failed", out |-> <<Entry("TOOLS/LIST failed:", response)>>]
       [] test = "raise" ->
            [res |-> "raise", out |-> <<>>]
       [] test = "ok" ->
            LET result == DictGet(response.o, "result", VNone)
            IN IF result.t /= "obj"
                 THEN [res |-> "raise", out |-> <<success>>]
                 ELSE [res |-> "ok",
                       out |-> <<success, Entry("Found N tools", VNum(PyLen(result)))>>]

(* lines 97-102: verdict on the tools/list response *)
ToolsReport(response) ==
  LET test == ResultTest(response)
      success == Entry("TOOLS/LIST successful!", VNone)
  IN CASE test = "failed" ->
            [res |-> "failed", out |-> <<Entry("TOOLS/LIST failed:", response)>>]
       [] test = "raise" ->
            [res |-> "raise", out |-> <<>>]
       [] test = "ok" ->
            LET result == DictGet(response.o, "result", VNone)
            IN IF result.t /= "obj"
                 THEN [res |-> "raise", out |-> <<success>>]
                 ELSE LET tools == DictGet(result.o, "tools", VArr(<<>>))
                      IN IF HasLen(tools)
                           THEN [res |-> "ok",
                                 out |-> <<success,
                                           Entry("Found N tools", VNum(PyLen(tools)))>>]
                           ELSE [res |-> "raise", out |-> <<success>>]

(***************************************************************************)
(* main, one action per blocking step.                                     *)
(***************************************************************************)
(* lines 29-41: Popen is outside the try; when it raises, main is left *)
Launch ==
  /\ pc = "start"
  /\ log' = Append(log, Entry("Starting process:", VNone))
  /\ \E started \in BOOLEAN :
       IF started
         THEN /\ child' = "running"
              /\ inOpen' = TRUE
              /\ outOpen' = TRUE
              /\ stage' = "Launched"
              /\ pc' = "send_init"
         ELSE /\ pc' = "raised"
              /\ UNCHANGED <<child, inOpen, outOpen, stage>>
  /\ UNCHANGED <<stdin, pending, nWritten, err, nErr, reads, init_response,
                 tools_response, waited, tdlog,
                 rd, errBlocked, earlyExit>>

(* line 62 *)
SendInit ==
  /\ pc = "send_init"
  /\ LET s == send_message(init_request)
     IN /\ stdin' = s.stdin
        /\ IF s.ok
             THEN log' = log \o s.out /\ pc' = "read_init"
             ELSE log' = log \o s.out \o ExceptHandler /\ pc' = "terminate"
  /\ UNCHANGED <<stage, reads, init_response, tools_response, waited, tdlog,
                 rd>>
  /\ UNCHANGED childVars

(* lines 65-70 *)
ReadInit ==
  /\ pc = "read_init"
  /\ CanRead
  /\ \E line \in Lines :
     LET r == read_response(readline(line))
         v == InitReport(r.v)
     IN /\ init_response' = r.v
        /\ rd' = Append(rd, readline(line))
        /\ log' = log \o r.out \o v.out
                      \o (IF v.res = "raise" THEN ExceptHandler ELSE <<>>)
        /\ pc' = IF v.res = "ok" THEN "send_notif" ELSE "terminate"
        /\ stage' = IF v.res = "ok" THEN "Initialized" ELSE stage
  /\ pending' = IF pending > 0 THEN pending - 1 ELSE pending
  /\ reads' = reads + 1
  /\ UNCHANGED <<child, inOpen, outOpen, stdin, nWritten, err, nErr,
                 tools_response, waited, tdlog,
                 errBlocked, earlyExit>>

(* faulty variant: a reply to the notification is awaited *)
SendNotif_awaitsReply ==
  /\ pc = "send_notif"
  /\ LET s == send_message(init_notification)
     IN /\ stdin' = s.stdin
        /\ IF s.ok
             THEN /\ log' = log \o s.out
                              \o <<Entry("INITIALIZED notification sent!", VNone)>>
                  /\ pc' = "read_tools"
             ELSE log' = log \o s.out \o ExceptHandler /\ pc' = "terminate"
  /\ UNCHANGED <<stage, reads, init_response, tools_response, waited, tdlog,
                 rd>>
  /\ UNCHANGED childVars

(* lines 79-83 *)
SendNotif ==
  /\ pc = "send_notif"
  /\ LET s == send_message(init_notification)
     IN /\ stdin' = s.stdin
        /\ IF s.ok
             THEN /\ log' = log \o s.out
                              \o <<Entry("INITIALIZED notification sent!", VNone)>>
                  /\ pc' = "send_tools"
             ELSE log' = log \o s.out \o ExceptHandler /\ pc' = "terminate"
  /\ UNCHANGED <<stage, reads, init_response, tools_response, waited, tdlog,
                 rd>>
  /\ UNCHANGED childVars

(* line 93 *)
SendTools ==
  /\ pc = "send_tools"
  /\ LET s == send_message(tools_request)
     IN /\ stdin' = s.stdin
        /\ IF s.ok
             THEN log' = log \o s.out /\ pc' = "read_tools"
             ELSE log' = log \o s.out \o ExceptHandler /\ pc' = "terminate"
  /\ UNCHANGED <<stage, reads, init_response, tools_response, waited, tdlog,
                 rd>>
  /\ UNCHANGED childVars

(* lines 96-102 *)
ReadTools ==
  /\ pc = "read_tools"
  /\ CanRead
  /\ \E line \in Lines :
     LET r == read_response(readline(line))
         v == ToolsReport(r.v)
     IN /\ tools_response' = r.v
        /\ rd' = Append(rd, readline(line))
        /\ log' = log \o r.out \o v.out
                      \o (IF v.res = "raise" THEN ExceptHandler ELSE <<>>)
        /\ stage' = IF v.res = "ok" THEN "ToolsListed" ELSE stage
  /\ pc' = "terminate"
  /\ pending' = IF pending > 0 THEN pending - 1 ELSE pending
  /\ reads' = reads + 1
  /\ UNCHANGED <<child, inOpen, outOpen, stdin, nWritten, err, nErr,
                 init_response, waited, tdlog,
                 errBlocked, earlyExit>>

(***************************************************************************)
(* The finally block of main, lines 106-116.                               *)
(***************************************************************************)
(* faulty variant: the child is killed without being waited for *)
Terminate_thenKill ==
  /\ pc = "terminate"
  /\ tdlog' = Append(tdlog, "terminate")
  /\ waited' = 0
  /\ pc' = "kill"
  /\ UNCHANGED <<stage, stdin, reads, init_response, tools_response, log,
                 rd>>
  /\ UNCHANGED childVars

(* line 107: process.terminate() asks the child to exit *)
Terminate ==
  /\ pc = "terminate"
  /\ tdlog' = Append(tdlog, "terminate")
  /\ waited' = 0
  /\ pc' = "wait"
  /\ UNCHANGED <<stage, stdin, reads, init_response, tools_response, log,
                 rd>>
  /\ UNCHANGED childVars

(* line 109: a time unit of process.wait(timeout=5) passes, child still running *)
WaitTick ==
  /\ pc = "wait"
  /\ child = "running"
  /\ waited < WaitTimeout
  /\ waited' = waited + 1
  /\ UNCHANGED <<pc, stage, stdin, reads, init_response, tools_response, log, tdlog,
                 rd>>
  /\ UNCHANGED childVars

(* line 109: process.wait returns because the child has exited *)
WaitReturn ==
  /\ pc = "wait"
  /\ child = "exited"
  /\ tdlog' = Append(tdlog, "waited")
  /\ pc' = "drain"
  /\ UNCHANGED <<stage, stdin, reads, init_response, tools_response, waited, log,
                 rd>>
  /\ UNCHANGED childVars

(* faulty variant: on the timeout the wait is started again, nothing is killed *)
WaitExpired_waitsAgain ==
  /\ pc = "wait"
  /\ child = "running"
  /\ waited = WaitTimeout
  /\ waited' = 0
  /\ UNCHANGED <<pc, stage, stdin, reads, init_response, tools_response, log, tdlog,
                 rd>>
  /\ UNCHANGED childVars

(* lines 110-111: TimeoutExpired is raised and caught *)
WaitExpired ==
  /\ pc = "wait"
  /\ child = "running"
  /\ waited = WaitTimeout
  /\ tdlog' = Append(tdlog, "timeout")
  /\ pc' = "kill"
  /\ UNCHANGED <<stage, stdin, reads, init_response, tools_response, waited, log,
                 rd>>
  /\ UNCHANGED childVars

(* line 111: process.kill() ends the child, which closes its streams *)
Kill ==
  /\ pc = "kill"
  /\ tdlog' = Append(tdlog, "kill")
  /\ child' = "exited"
  /\ inOpen' = FALSE
  /\ outOpen' = FALSE
  /\ errBlocked' = FALSE
  /\ pc' = "drain"
  /\ UNCHANGED <<stage, stdin, pending, nWritten, err, nErr, reads, init_response,
                 tools_response, waited, log,
                 rd, earlyExit>>

(* lines 114-116: process.stderr.read() returns at end-of-stream, that is once
   the child has exited; what it returns is printed when not empty *)
Drain ==
  /\ pc = "drain"
  /\ child = "exited"
  /\ tdlog' = Append(tdlog, "drain")
  /\ log' = IF err > 0 THEN Append(log, Entry("STDERR:", VNum(err))) ELSE log
  /\ err' = 0
  /\ pc' = "done"
  /\ UNCHANGED <<stage, child, inOpen, outOpen, stdin, pending, nWritten, nErr, reads,
                 init_response, tools_response, waited,
                 rd, errBlocked, earlyExit>>

(***************************************************************************)
(* The child process: any program may be at the other end of the pipes.    *)
(***************************************************************************)
ChildWrite ==
  /\ child = "running"
  /\ ~errBlocked
  /\ outOpen
  /\ nWritten < MaxLines
  /\ pending' = pending + 1
  /\ nWritten' = nWritten + 1
  /\ UNCHANGED <<pc, stage, child, inOpen, outOpen, stdin, err, nErr, reads,
                 init_response, tools_response, waited, log, tdlog,
                 rd, errBlocked, earlyExit>>

(* a write to stderr that fits the pipe; main reads stderr only in teardown *)
ChildWriteErr ==
  /\ child = "running"
  /\ ~errBlocked
  /\ nErr < MaxErr
  /\ err < PipeCap
  /\ err' = err + 1
  /\ nErr' = nErr + 1
  /\ UNCHANGED <<pc, stage, child, inOpen, outOpen, stdin, pending, nWritten, reads,
                 init_response, tools_response, waited, log, tdlog,
                 rd, errBlocked, earlyExit>>

(* a write to stderr when the pipe is full blocks the child *)
ChildBlockErr ==
  /\ child = "running"
  /\ ~errBlocked
  /\ nErr < MaxErr
  /\ err = PipeCap
  /\ errBlocked' = TRUE
  /\ UNCHANGED <<pc, stage, child, inOpen, outOpen, stdin, pending, nWritten, err,
                 nErr, reads, init_response, tools_response, waited, log, tdlog,
                 rd, earlyExit>>

ChildCloseIn ==
  /\ child = "running"
  /\ ~errBlocked
  /\ inOpen
  /\ inOpen' = FALSE
  /\ UNCHANGED <<pc, stage, child, outOpen, stdin, pending, nWritten, err, nErr, reads,
                 init_response, tools_response, waited, log, tdlog,
                 rd, errBlocked, earlyExit>>

ChildCloseOut ==
  /\ child = "running"
  /\ ~errBlocked
  /\ outOpen
  /\ outOpen' = FALSE
  /\ UNCHANGED <<pc, stage, child, inOpen, stdin, pending, nWritten, err, nErr, reads,
                 init_response, tools_response, waited, log, tdlog,
                 rd, errBlocked, earlyExit>>

(* the child exits, of its own accord or on the terminate request; while it
   is blocked in a write only a signal ends it *)
ChildExit ==
  /\ child = "running"
  /\ errBlocked => tdlog /= <<>>
  /\ child' = "exited"
  /\ inOpen' = FALSE
  /\ outOpen' = FALSE
  /\ errBlocked' = FALSE
  /\ earlyExit' = (pc = "send_init")
  /\ UNCHANGED <<pc, stage, stdin, pending, nWritten, err, nErr, reads,
                 init_response, tools_response, waited, log, tdlog, rd>>

Probe ==
  \/ Launch \/ SendInit \/ ReadInit \/ SendNotif \/ SendTools \/ ReadTools
  \/ Terminate \/ WaitTick \/ WaitReturn \/ WaitExpired \/ Kill \/ Drain

Child ==
  \/ ChildWrite \/ ChildWriteErr \/ ChildBlockErr \/ ChildCloseIn \/ ChildCloseOut
  \/ ChildExit

Next == Probe \/ Child

Spec == Init /\ [][Next]_vars

(* main is a running thread: a step of main that can be taken is taken.
   Nothing obliges the child to write, to close a stream or to exit. *)
FairSpec == Spec /\ WF_vars(Probe)

(* the lifecycle of a run, section 4.1 of the specification *)
Lifecycle ==
  IF pc = "start" THEN "NotStarted"
  ELSE IF pc \in {"done", "raised"} THEN "Terminated"
  ELSE stage

TypeOK ==
  /\ pc \in {"start", "raised", "send_init", "read_init", "send_notif", "send_tools",
             "read_tools", "terminate", "wait", "kill", "drain", "done"}
  /\ stage \in {"NotStarted", "Launched", "Initialized", "ToolsListed"}
  /\ child \in {"none", "running", "exited"}
  /\ reads \in 0..2
  /\ waited \in 0..WaitTimeout
  /\ Len(rd) = reads
  /\ err \in 0..PipeCap
  /\ errBlocked \in BOOLEAN
  /\ earlyExit \in BOOLEAN

(***************************************************************************)
(* Vocabulary of the properties.                                           *)
(***************************************************************************)
Logged(msg) == \E i \in 1..Len(log) : log[i].msg = msg
LoggedWith(msg, arg) == \E i \in 1..Len(log) : log[i] = Entry(msg, arg)
Count(seq, x) == Cardinality({i \in 1..Len(seq) : seq[i] = x})
HasKey(v, k) == v.t = "obj" /\ \E i \in 1..Len(v.o) : v.o[i].k = k
HasResultField(v) == HasKey(v, "result")
RunOver == pc \in {"done", "raised"}
InTeardown == pc \in {"terminate", "wait", "kill", "drain"}
LastOf(seq) == seq[Len(seq)]
IsPrefix(a, b) == Len(a) <= Len(b) /\ \A i \in 1..Len(a) : a[i] = b[i]

(* C1: when the run is over, teardown has been invoked exactly once (and it is
   never invoked twice), also when the fault was the launch of the child *)
C1_TeardownExactlyOnce ==
  /\ Count(tdlog, "terminate") <= 1
  /\ RunOver => Count(tdlog, "terminate") = 1

(* C2: once the initialize response has been read, "INITIALIZE successful!" is
   reported exactly when the response is present and has a `result` field,
   whatever its value, and "INITIALIZE failed" is reported in every other case *)
C2_InitVerdictByResultField ==
  reads >= 1 =>
    /\ Logged("INITIALIZE successful!") <=> HasResultField(init_response)
    /\ Logged("INITIALIZE failed:") <=> ~HasResultField(init_response)

(* C3: the lines written to the child's stdin are a prefix of initialize (id 1),
   notifications/initialized (no id), tools/list (id 2): same order, each at
   most once, and the ids of the requests are pairwise distinct *)
ExpectedMethod == <<"initialize", "notifications/initialized", "tools/list">>
ExpectedId == <<VNum(1), VNone, VNum(2)>>
Decoded(i) == json_loads(stdin[i])
C3_SentIsPrefix ==
  /\ Len(stdin) <= 3
  /\ \A i \in 1..Len(stdin) :
       /\ Decoded(i).ok
       /\ Decoded(i).v.t = "obj"
       /\ DictGet(Decoded(i).v.o, "method", VNone) = VStr(ExpectedMethod[i])
       /\ HasKey(Decoded(i).v, "id") <=> (ExpectedId[i] /= VNone)
       /\ DictGet(Decoded(i).v.o, "id", VNone) = ExpectedId[i]
  /\ \A i, j \in 1..Len(stdin) :
       (i /= j /\ HasKey(Decoded(i).v, "id") /\ HasKey(Decoded(j).v, "id"))
         => DictGet(Decoded(i).v.o, "id", VNone) /= DictGet(Decoded(j).v.o, "id", VNone)
C3_Witness == Len(stdin) = 3 /\ pc = "done"

(* C4: the notification is written in the step that follows the report of a
   successful initialize response; no read happens between the notification
   and tools/list; reads never exceed the requests (messages with an id)
   written; a request is written only when no read is pending *)
Requests(lines) ==
  Cardinality({i \in 1..Len(lines) : HasKey(json_loads(lines[i]).v, "id")})
C4_Step ==
  /\ (Len(stdin) = 1 /\ Len(stdin') = 2) =>
        /\ LastOf(log).msg = "INITIALIZE successful!"
        /\ ~HasKey(json_loads(stdin'[2]).v, "id")
  /\ Len(stdin) = 2 => reads' = reads
  /\ reads' <= Requests(stdin')
  /\ (Requests(stdin') > Requests(stdin)) => reads = Requests(stdin)
C4_NoPipelining == [][C4_Step]_vars
C4_Witness == Len(stdin) = 3 /\ reads = 2

(* C5: when the initialize response is absent or has no `result` field, nothing
   more is written to the child, nothing more is read, and main is in or past
   teardown *)
C5_AbortOnInitFailure ==
  (reads >= 1 /\ ~HasResultField(init_response)) =>
    /\ Len(stdin) = 1
    /\ reads = 1
    /\ InTeardown \/ pc = "done"
    /\ pc = "done" => Count(tdlog, "terminate") = 1
C5_Witness ==
  /\ pc = "done"
  /\ reads = 1
  /\ init_response.t = "obj"
  /\ ~HasResultField(init_response)

(* C6: for a tools/list response {"result": {"tools": [t1..tN]}} the probe
   reports "Found N tools", N the length of the tools sequence, for every N >= 0 *)
ToolsOf(v) == DictGet(DictGet(v.o, "result", VNone).o, "tools", VNone)
IsToolsListForm(v) ==
  /\ HasResultField(v)
  /\ HasKey(DictGet(v.o, "result", VNone), "tools")
  /\ ToolsOf(v).t = "arr"
C6_FoundCountIsLength ==
  (reads = 2 /\ IsToolsListForm(tools_response)) =>
    /\ LoggedWith("Found N tools", VNum(Len(ToolsOf(tools_response).a)))
    /\ Count([i \in 1..Len(log) |-> log[i].msg], "Found N tools") = 1
C6_Witness ==
  /\ reads = 2
  /\ IsToolsListForm(tools_response)
  /\ ToolsOf(tools_response).a = <<>>
  /\ LoggedWith("Found N tools", VNum(0))

(* C7: once the tools/list response has been read, "TOOLS/LIST successful!" and
   a tool count are reported whenever the response has a `result` field, and
   "TOOLS/LIST failed" with the raw response in every other case; exactly one
   of the two is reported *)
C7_ToolsVerdictByResultField ==
  reads = 2 =>
    /\ HasResultField(tools_response) =>
         Logged("TOOLS/LIST successful!") /\ Logged("Found N tools")
    /\ ~HasResultField(tools_response) =>
         LoggedWith("TOOLS/LIST failed:", tools_response)
    /\ Logged("TOOLS/LIST successful!") /= Logged("TOOLS/LIST failed:")

(* C8: the lifecycle only moves forward through NotStarted, Launched,
   Initialized, ToolsListed, Terminated, and every run reaches Terminated *)
Rank(l) ==
  CASE l = "NotStarted" -> 0
    [] l = "Launched" -> 1
    [] l = "Initialized" -> 2
    [] l = "ToolsListed" -> 3
    [] l = "Terminated" -> 4
LifecycleForward ==
  [][Lifecycle' /= Lifecycle => Rank(Lifecycle') > Rank(Lifecycle)]_vars
C8_AlwaysTerminates == LifecycleForward /\ <>(Lifecycle = "Terminated")

(* C8 as amended: the lifecycle only moves forward, and every run reaches
   Terminated unless main stays blocked for ever in a read on which the child
   neither writes a line nor closes its output *)
ReadBlocked == pc \in {"read_init", "read_tools"} /\ ~CanRead
C8_TerminatesUnlessReadBlocks ==
  LifecycleForward /\ (<>(Lifecycle = "Terminated") \/ <>[]ReadBlocked)
C8_Witness ==
  /\ Lifecycle = "Terminated"
  /\ stage = "ToolsListed"
  /\ Count(tdlog, "kill") = 1

(* C9: no fault leaves the run: main never ends by an exception, and a run that
   met a fault has logged it, has gone through teardown and has written no
   message twice *)
FaultMet ==
  \/ pc = "raised"
  \/ Logged("Error during test:")
  \/ Logged("ERROR reading response:")
  \/ Logged("INITIALIZE failed:")
  \/ Logged("TOOLS/LIST failed:")
C9_NoFaultEscapes ==
  /\ pc /= "raised"
  /\ (RunOver /\ FaultMet) => Count(tdlog, "terminate") = 1
  /\ \A i, j \in 1..Len(stdin) : stdin[i] = stdin[j] => i = j

(* C10: teardown is terminate, then the wait, then kill only after the wait
   timed out with the child still running after the full timeout, then the
   drain of stderr; when the run is over the child is not running *)
TeardownGraceful == <<"terminate", "waited", "drain">>
TeardownForced == <<"terminate", "timeout", "kill", "drain">>
C10_Step ==
  /\ IsPrefix(tdlog', TeardownGraceful) \/ IsPrefix(tdlog', TeardownForced)
  /\ (tdlog' /= tdlog /\ LastOf(tdlog') = "timeout") =>
        child = "running" /\ waited = WaitTimeout
  /\ (tdlog' /= tdlog /\ LastOf(tdlog') = "kill") => LastOf(tdlog) = "timeout"
  /\ pc' = "done" => (LastOf(tdlog') = "drain" /\ child' = "exited")
  /\ RunOver' => child' /= "running"
C10_TeardownOrder == [][C10_Step]_vars
C10_Witness == pc = "done" /\ tdlog = TeardownForced /\ Logged("STDERR:")


(* C11: with a child that exited right after launch, before main's first
   send, the first read yields absent, "INITIALIZE failed" is reported, the
   teardown is clean and no exception leaves the run *)
Msgs == [i \in 1..Len(log) |-> log[i].msg]
C11_EarlyExitReadsAbsent ==
  earlyExit =>
    /\ pc /= "raised"
    /\ pc = "done" =>
         /\ Len(rd) = 1
         /\ rd[1].eof
         /\ init_response = VNone
         /\ Logged("INITIALIZE failed:")
         /\ tdlog = TeardownGraceful

(* C11 as amended: with a child that exited right after launch, before main's
   first send, that send raises; the fault is caught and logged, nothing is
   read, no verdict on initialize is reported, the teardown is clean and no
   exception leaves the run *)
C11_EarlyExitFailsSend ==
  earlyExit =>
    /\ pc /= "raised"
    /\ pc /= "send_init" =>
         /\ InTeardown \/ pc = "done"
         /\ stdin = <<>>
         /\ rd = <<>>
         /\ IsPrefix(<<"Starting process:", "SENDING:", "Error during test:">>, Msgs)
         /\ \A i \in 4..Len(log) : log[i].msg = "STDERR:"
         /\ ~Logged("INITIALIZE failed:")
         /\ ~Logged("INITIALIZE successful!")
    /\ pc = "done" => tdlog = TeardownGraceful
C11_Witness == earlyExit /\ pc = "done" /\ nWritten = 0 /\ nErr = 0

(* C12: with a child whose first line is {"jsonrpc":"2.0","id":1,"result":{}}
   and whose second is {"jsonrpc":"2.0","id":2,"result":{"tools":[{"name":"a"},
   {"name":"b"}]}}, initialize success is reported, then the notification,
   then "Found 2 tools" *)
Got(toks) == [eof |-> FALSE, toks |-> toks]
InOrder(m1, m2, m3) ==
  \E i, j, k \in 1..Len(log) :
    i < j /\ j < k /\ log[i].msg = m1 /\ log[j].msg = m2 /\ log[k].msg = m3
C12_StubHandshake ==
  /\ (Len(rd) >= 1 /\ rd[1] = Got(LineEmptyResult)) =>
        Logged("INITIALIZE successful!")
  /\ (Len(rd) = 2 /\ rd[1] = Got(LineEmptyResult) /\ rd[2] = Got(LineTools(2))) =>
        /\ InOrder("INITIALIZE successful!", "INITIALIZED notification sent!",
                   "Found N tools")
        /\ LoggedWith("Found N tools", VNum(2))

(* C13: while main is in a read and the child has neither written a line nor
   closed its output, main does nothing: it writes no message, reports nothing,
   starts no teardown and stays in that read *)
NothingToRead == pc \in {"read_init", "read_tools"} /\ pending = 0 /\ outOpen
C13_Step ==
  NothingToRead =>
    /\ pc' = pc
    /\ stdin' = stdin
    /\ log' = log
    /\ tdlog' = tdlog
    /\ rd' = rd
C13_ReadBlocks == [][C13_Step]_vars
C13_Witness == NothingToRead /\ pc = "read_tools" /\ reads = 1 /\ child = "running"

(* C14: read_response never raises: at end-of-stream it returns absent without
   a log entry; on a line that is not valid JSON, an empty line included, it
   logs "ERROR reading response:" and returns absent; in both cases the caller
   reports the failure of that step and the top-level handler is not reached *)
NotJson == {LineEmpty, LineGarbage, LineTruncated, LineBadBytes}
AbsentAt(k) == rd[k].eof \/ rd[k].toks \in NotJson
C14_MalformedIsAbsent ==
  /\ Count(Msgs, "ERROR reading response:")
       = Cardinality({k \in 1..Len(rd) : ~rd[k].eof /\ rd[k].toks \in NotJson})
  /\ (Len(rd) >= 1 /\ AbsentAt(1)) =>
        /\ init_response = VNone
        /\ LoggedWith("INITIALIZE failed:", VNone)
        /\ ~Logged("Error during test:")
  /\ (Len(rd) = 2 /\ AbsentAt(2)) =>
        /\ tools_response = VNone
        /\ LoggedWith("TOOLS/LIST failed:", VNone)
        /\ ~Logged("Error during test:")
C14_Witness ==
  /\ Len(rd) = 2
  /\ rd[2] = Got(LineEmpty)
  /\ LoggedWith("TOOLS/LIST failed:", VNone)

(* C15: the id echoed in a response is not verified: had the line read carried
   any other value in its `id` fields, the verdict on the request (and with it
   what main sends and reports next) would be the same; the verdict is taken
   from the line read, whatever its id *)
AltIds == {0, 1, 2, 7}
WithId(toks, n) ==
  [i \in 1..Len(toks) |->
     IF i >= 3 /\ toks[i - 2] = S("id") /\ toks[i - 1] = P(":") /\ toks[i].k = "num"
       THEN N(n)
       ELSE toks[i]]
InitVerdict ==
  IF Logged("INITIALIZE successful!") THEN "ok"
  ELSE IF Logged("INITIALIZE failed:") THEN "failed"
  ELSE "raise"
ToolsVerdict ==
  IF Logged("Found N tools") THEN "ok"
  ELSE IF Logged("TOOLS/LIST failed:") THEN "failed"
  ELSE "raise"
C15_IdNotVerified ==
  \A n \in AltIds :
    /\ (Len(rd) >= 1 /\ ~rd[1].eof) =>
          InitReport(read_response(Got(WithId(rd[1].toks, n))).v).res = InitVerdict
    /\ (Len(rd) = 2 /\ ~rd[2].eof) =>
          LET v == ToolsReport(read_response(Got(WithId(rd[2].toks, n))).v)
          IN /\ v.res = ToolsVerdict
             /\ v.res = "ok" => LoggedWith("Found N tools", v.out[2].arg)
C15_Witness ==
  /\ Len(rd) = 2
  /\ rd[1] = Got(LineTools(0))
  /\ rd[2] = Got(LineInitResult)
  /\ Logged("INITIALIZE successful!")
  /\ LoggedWith("Found N tools", VNum(0))

(* C16: main and the child never wait on each other for ever: main is never
   blocked in a read of the child's stdout while the child is blocked in a
   write to its full stderr pipe *)
C16_NoMutualWait == ~(NothingToRead /\ errBlocked)

====
